---- MODULE Spec2Model ----
(***************************************************************************)
(* A model of xpoJson2rdf.py: the conversion of the XPO JSON document      *)
(* (four mappings from node id to a record of properties) into a set of    *)
(* RDF triples held in the module-level GRAPH.                             *)
(*                                                                         *)
(* JSON values are records [k, t, s, l]: t is the Python type ("str",      *)
(* "list", "dict"), s the text of a string, l the elements of a list or    *)
(* the items of a dict in enumeration order, k the key under which the     *)
(* value sits in its enclosing dict ("" elsewhere).                        *)
(* RDF terms are records [kind, ns, name, id]: a URIRef is the pair of a   *)
(* namespace and the text appended to it, a Literal carries its text, a    *)
(* BNode carries its role prefix and the identifier drawn for it.          *)
(***************************************************************************)
EXTENDS Integers, Sequences, FiniteSets, TLC

\* ------------------------------------------------------------------ values

Str(s) == [k |-> "", t |-> "str", s |-> s, l |-> <<>>]
Lst(seq) == [k |-> "", t |-> "list", s |-> "", l |-> seq]
Dict(items) == [k |-> "", t |-> "dict", s |-> "", l |-> items]
KV(key, v) == [v EXCEPT !.k = key]

\* key in v, for a dict v
HasKey(v, key) == \E i \in 1..Len(v.l) : v.l[i].k = key
\* v[key], for a dict v that has the key
GetItem(v, key) == v.l[CHOOSE i \in 1..Len(v.l) : v.l[i].k = key]
\* the exception v[key] raises, "" when it raises none
SubscriptErr(v, key) ==
  IF v.t # "dict" THEN "TypeError"
  ELSE IF ~HasKey(v, key) THEN "KeyError"
  ELSE ""
\* the values a for loop over v enumerates: the elements of a list, the keys
\* of a dict, the characters of a string (strings that are iterated are at
\* most one character long in the documents below)
Iter(v) ==
  IF v.t = "list" THEN v.l
  ELSE IF v.t = "dict" THEN [i \in 1..Len(v.l) |-> Str(v.l[i].k)]
  ELSE IF v.s = "" THEN <<>> ELSE <<Str(v.s)>>

\* ------------------------------------------------------------------ terms

XPO == "http://purl.org/xpo/"
DWD == "http://purl.org/dwd/"
WD == "http://www.wikidata.org/wiki/"
ONT == XPO

URIRef(ns, name) == [kind |-> "uri", ns |-> ns, name |-> name, id |-> 0]
\* Literal(value); a value that is no string is kept by its type tag
Literal(v) ==
  [kind |-> "lit", ns |-> IF v.t = "str" THEN "" ELSE v.t, name |-> v.s, id |-> 0]
BNode(prefix, n) == [kind |-> "bnode", ns |-> prefix, name |-> "", id |-> n]
\* DWD.<name> and URIRef(DWD + name) inside convert_generic, whose parameter
\* DWD defaults to XPO and is never passed
P(name) == URIRef(ONT, name)

\* --------------------------------------------- the interpreter's state, m
\* G the triples of GRAPH, next the number of identifiers drawn, created the
\* synthetic nodes with the node they were made for, diags the printed
\* notices, exc the exception raised ("" while running), bound/lan/lav the
\* locals ldc_arg_name and ldc_arg_value, hits the number of times the test
\* of line 131 was true.

Raise(m, e) == [m EXCEPT !.exc = e]
GraphAdd(m, s, p, o) == [m EXCEPT !.G = @ \cup {<<s, p, o>>}]
PrintDiag(m, msg, prop) ==
  [m EXCEPT !.diags = Append(@, [msg |-> msg, prop |-> prop])]
\* the node bnode(prefix) returns in state m, and the state after the call
bnode(m, prefix) == BNode(prefix, m.next + 1)
Drawn(m, b, parent) ==
  [m EXCEPT !.next = @ + 1, !.created = @ \cup {[b |-> b, parent |-> parent]}]

\* ---------------------------------------------------- overlay_parents

\* a slip: the parent is attached as a literal, not as a reference
OverlayElem_LiteralParent(m, node, v) ==
  LET b == bnode(m, "OVERLAY")
      m1 == GraphAdd(Drawn(m, b, node), node, P("overlay"), b)
      e1 == SubscriptErr(v, "wd_node")
  IN IF e1 # "" THEN Raise(m1, e1)
     ELSE LET m2 == GraphAdd(m1, b, P("overlay_parent"), Literal(GetItem(v, "wd_node")))
              e2 == SubscriptErr(v, "name")
          IN IF e2 # "" THEN Raise(m2, e2)
             ELSE GraphAdd(m2, b, P("overlay_parent_name"),
                           Literal(GetItem(v, "name")))

OverlayElem(m, node, v) ==
  LET b == bnode(m, "OVERLAY")
      m1 == GraphAdd(Drawn(m, b, node), node, P("overlay"), b)
      e1 == SubscriptErr(v, "wd_node")
  IN IF e1 # "" THEN Raise(m1, e1)
     ELSE LET m2 == GraphAdd(m1, b, P("overlay_parent"),
                             URIRef(WD, GetItem(v, "wd_node").s))
              e2 == SubscriptErr(v, "name")
          IN IF e2 # "" THEN Raise(m2, e2)
             ELSE GraphAdd(m2, b, P("overlay_parent_name"),
                           Literal(GetItem(v, "name")))

RECURSIVE OverlayLoop(_, _, _, _)
OverlayLoop(m, node, vs, i) ==
  IF m.exc # "" \/ i > Len(vs) THEN m
  ELSE OverlayLoop(OverlayElem(m, node, vs[i]), node, vs, i + 1)

Overlay(m, node, value) ==
  IF value.t = "list" THEN OverlayLoop(m, node, value.l, 1)
  ELSE PrintDiag(m, "Bad property-values", "overlay_parents")

\* ------------------------------------------------------ similar_nodes

\* a slip: the similarity type is attached as a literal
SimilarElem_LiteralType(m, node, v) ==
  LET b == bnode(m, "SIMILAR")
      m1 == GraphAdd(Drawn(m, b, node), node, P("similarNode"), b)
      e1 == SubscriptErr(v, "wd_node")
  IN IF e1 # "" THEN Raise(m1, e1)
     ELSE LET m2 == GraphAdd(m1, b, P("wd_node"),
                             URIRef(WD, GetItem(v, "wd_node").s))
              e2 == SubscriptErr(v, "name")
          IN IF e2 # "" THEN Raise(m2, e2)
             ELSE LET m3 == GraphAdd(m2, b, P("name"), Literal(GetItem(v, "name")))
                      e3 == SubscriptErr(v, "similarity_type")
                  IN IF e3 # "" THEN Raise(m3, e3)
                     ELSE GraphAdd(m3, b, P("similarity_type"),
                                   Literal(GetItem(v, "similarity_type")))

SimilarElem(m, node, v) ==
  LET b == bnode(m, "SIMILAR")
      m1 == GraphAdd(Drawn(m, b, node), node, P("similarNode"), b)
      e1 == SubscriptErr(v, "wd_node")
  IN IF e1 # "" THEN Raise(m1, e1)
     ELSE LET m2 == GraphAdd(m1, b, P("wd_node"),
                             URIRef(WD, GetItem(v, "wd_node").s))
              e2 == SubscriptErr(v, "name")
          IN IF e2 # "" THEN Raise(m2, e2)
             ELSE LET m3 == GraphAdd(m2, b, P("name"), Literal(GetItem(v, "name")))
                      e3 == SubscriptErr(v, "similarity_type")
                  IN IF e3 # "" THEN Raise(m3, e3)
                     ELSE GraphAdd(m3, b, P("similarity_type"),
                                   URIRef(ONT, GetItem(v, "similarity_type").s))

RECURSIVE SimilarLoop(_, _, _, _)
SimilarLoop(m, node, vs, i) ==
  IF m.exc # "" \/ i > Len(vs) THEN m
  ELSE SimilarLoop(SimilarElem(m, node, vs[i]), node, vs, i + 1)

Similar(m, node, value) ==
  IF value.t = "list" THEN SimilarLoop(m, node, value.l, 1)
  ELSE PrintDiag(m, "Bad property-values", "similar_nodes")

\* ----------------------------------------------------- related_qnodes

RelatedElem(m, node, v) ==
  LET b == bnode(m, "WDNODE")
      m1 == GraphAdd(Drawn(m, b, node), node, P("related_qnode"), b)
      e1 == SubscriptErr(v, "wd_node")
  IN IF e1 # "" THEN Raise(m1, e1)
     ELSE LET m2 == GraphAdd(m1, b, P("wd_node"),
                             URIRef(WD, GetItem(v, "wd_node").s))
              e2 == SubscriptErr(v, "name")
          IN IF e2 # "" THEN Raise(m2, e2)
             ELSE GraphAdd(m2, b, P("name"), Literal(GetItem(v, "name")))

RECURSIVE RelatedLoop(_, _, _, _)
RelatedLoop(m, node, vs, i) ==
  IF m.exc # "" \/ i > Len(vs) THEN m
  ELSE RelatedLoop(RelatedElem(m, node, vs[i]), node, vs, i + 1)

Related(m, node, value) ==
  IF value.t = "list" THEN RelatedLoop(m, node, value.l, 1)
  ELSE PrintDiag(m, "Bad property-values", "related_qnodes")

\* ---------------------------------------------------------- arguments

\* key in v: a key of a dict, an element of a list, a substring of a string
\* (the strings of the documents below contain no key as a proper substring)
Contains(v, key) ==
  IF v.t = "dict" THEN HasKey(v, key)
  ELSE IF v.t = "list" THEN \E i \in 1..Len(v.l) : v.l[i] = Str(key)
  ELSE v.s = key

\* a slip: the constraint node is filled in but never linked from its argument
ConstraintElem_Unlinked(m, arg_node, c) ==
  LET b == bnode(m, "CONSTRAINT")
      m1 == Drawn(m, b, arg_node)
      e1 == SubscriptErr(c, "name")
  IN IF e1 # "" THEN Raise(m1, e1)
     ELSE LET m2 == GraphAdd(m1, b, P("name"), Literal(GetItem(c, "name")))
              e2 == SubscriptErr(c, "wd_node")
          IN IF e2 # "" THEN Raise(m2, e2)
             ELSE GraphAdd(m2, b, P("wd_node"),
                           URIRef(WD, GetItem(c, "wd_node").s))

ConstraintElem(m, arg_node, c) ==
  LET b == bnode(m, "CONSTRAINT")
      m1 == GraphAdd(Drawn(m, b, arg_node), arg_node, P("constraint"), b)
      e1 == SubscriptErr(c, "name")
  IN IF e1 # "" THEN Raise(m1, e1)
     ELSE LET m2 == GraphAdd(m1, b, P("name"), Literal(GetItem(c, "name")))
              e2 == SubscriptErr(c, "wd_node")
          IN IF e2 # "" THEN Raise(m2, e2)
             ELSE GraphAdd(m2, b, P("wd_node"),
                           URIRef(WD, GetItem(c, "wd_node").s))

RECURSIVE ConstraintLoop(_, _, _, _)
ConstraintLoop(m, arg_node, cs, i) ==
  IF m.exc # "" \/ i > Len(cs) THEN m
  ELSE ConstraintLoop(ConstraintElem(m, arg_node, cs[i]), arg_node, cs, i + 1)

\* if key in arg: GRAPH.add((arg_node, DWD.<key>, Literal(arg[key])))
ArgOptional(m, arg_node, arg, key) ==
  IF m.exc # "" \/ ~Contains(arg, key) THEN m
  ELSE IF SubscriptErr(arg, key) # "" THEN Raise(m, SubscriptErr(arg, key))
  ELSE GraphAdd(m, arg_node, P(key), Literal(GetItem(arg, key)))

ArgElem(m, node, arg) ==
  LET b == bnode(m, "ARG")
      m1 == GraphAdd(Drawn(m, b, node), node, P("argument"), b)
      m2 == ArgOptional(m1, b, arg, "name")
      m3 == ArgOptional(m2, b, arg, "short_name")
      e == SubscriptErr(arg, "constraints")
  IN IF m3.exc # "" THEN m3
     ELSE IF e # "" THEN Raise(m3, e)
     ELSE ConstraintLoop(m3, b, Iter(GetItem(arg, "constraints")), 1)

RECURSIVE ArgLoop(_, _, _, _)
ArgLoop(m, node, vs, i) ==
  IF m.exc # "" \/ i > Len(vs) THEN m
  ELSE ArgLoop(ArgElem(m, node, vs[i]), node, vs, i + 1)

\* a slip: the list is tested for truth, so an empty list is reported
Arguments_Truthy(m, node, value) ==
  IF value.t = "list" /\ Len(value.l) > 0 THEN ArgLoop(m, node, value.l, 1)
  ELSE PrintDiag(m, "Bad property-values (not a list)", "arguments")

Arguments(m, node, value) ==
  IF value.t = "list" THEN ArgLoop(m, node, value.l, 1)
  ELSE PrintDiag(m, "Bad property-values (not a list)", "arguments")

\* ---------------------------------------------------------- ldc_types

LdcArgLeafNames == {"ldc_name", "ldc_argument_output_value", "dwd_arg_name"}

\* one round of the loop of line 127: binds ldc_arg_name and ldc_arg_value
LdcArgItem(m, ldc_arg_node, item) ==
  LET m1 == [m EXCEPT !.bound = TRUE, !.lan = item.k, !.lav = KV("", item)]
  IN IF item.k \in LdcArgLeafNames
     THEN GraphAdd(m1, ldc_arg_node, P("ldc_code"), Literal(item))
     ELSE m1

RECURSIVE LdcArgItems(_, _, _, _)
LdcArgItems(m, ldc_arg_node, items, i) ==
  IF i > Len(items) THEN m
  ELSE LdcArgItems(LdcArgItem(m, ldc_arg_node, items[i]), ldc_arg_node, items, i + 1)

RECURSIVE LdcConstraintLoop(_, _, _, _)
LdcConstraintLoop(m, ldc_arg_node, vs, i) ==
  IF i > Len(vs) THEN m
  ELSE LdcConstraintLoop(GraphAdd(m, ldc_arg_node, P("ldc_constraint"), Literal(vs[i])),
                         ldc_arg_node, vs, i + 1)

\* the body with GRAPH for graph
LdcConstraintBody_Graph(m, ldc_arg_node) ==
  LdcConstraintLoop(m, ldc_arg_node, Iter(m.lav), 1)

\* lines 132-133: the loop over ldc_arg_value, whose body names the global
\* graph, which the module never defines
LdcConstraintBody(m, ldc_arg_node) ==
  IF Len(Iter(m.lav)) > 0 THEN Raise(m, "NameError") ELSE m

\* line 131, placed after the loop of line 127: it reads whatever that loop,
\* or an earlier one of the same call, left in ldc_arg_name
LdcConstraintCheck(m, ldc_arg_node) ==
  IF ~m.bound THEN Raise(m, "UnboundLocalError")
  ELSE IF m.lan = "ldc_contraints"
       THEN LdcConstraintBody([m EXCEPT !.hits = @ + 1], ldc_arg_node)
       ELSE m

LdcArgElem(m, ldc_type_node, ldc_arg) ==
  LET b == bnode(m, "LDCARG")
      m1 == GraphAdd(Drawn(m, b, ldc_type_node), ldc_type_node, P("ldc_argument"), b)
  IN IF ldc_arg.t # "dict" THEN Raise(m1, "AttributeError")
     ELSE LdcConstraintCheck(LdcArgItems(m1, b, ldc_arg.l, 1), b)

RECURSIVE LdcArgLoop(_, _, _, _)
LdcArgLoop(m, ldc_type_node, vs, i) ==
  IF m.exc # "" \/ i > Len(vs) THEN m
  ELSE LdcArgLoop(LdcArgElem(m, ldc_type_node, vs[i]), ldc_type_node, vs, i + 1)

RECURSIVE RolesetLoop(_, _, _, _)
RolesetLoop(m, ldc_type_node, vs, i) ==
  IF i > Len(vs) THEN m
  ELSE RolesetLoop(GraphAdd(m, ldc_type_node, P("other_pb_roleset"), Literal(vs[i])),
                   ldc_type_node, vs, i + 1)

\* one round of the loop of line 115
LdcTypeItem(m, node, ldc_type_node, item) ==
  IF item.k = "name" THEN GraphAdd(m, ldc_type_node, P("name"), Literal(item))
  ELSE IF item.k = "ldc_code"
       THEN GraphAdd(m, ldc_type_node, P("ldc_code"), Literal(item))
  ELSE IF item.k = "other_pb_rolesets"
       THEN RolesetLoop(m, ldc_type_node, Iter(item), 1)
  ELSE IF item.k = "ldc_arguments"
       THEN LdcArgLoop(m, ldc_type_node, Iter(item), 1)
  ELSE PrintDiag(m, "Bad LDC_types property (unrecognized)", item.k)

RECURSIVE LdcTypeItems(_, _, _, _, _)
LdcTypeItems(m, node, ldc_type_node, items, i) ==
  IF m.exc # "" \/ i > Len(items) THEN m
  ELSE LdcTypeItems(LdcTypeItem(m, node, ldc_type_node, items[i]),
                    node, ldc_type_node, items, i + 1)

LdcTypeElem(m, node, v) ==
  LET b == bnode(m, "LDCTYPE")
      m1 == GraphAdd(Drawn(m, b, node), node, P("ldc_type"), b)
  IN IF v.t # "dict" THEN Raise(m1, "AttributeError")
     ELSE LdcTypeItems(m1, node, b, v.l, 1)

RECURSIVE LdcTypeLoop(_, _, _, _)
LdcTypeLoop(m, node, vs, i) ==
  IF m.exc # "" \/ i > Len(vs) THEN m
  ELSE LdcTypeLoop(LdcTypeElem(m, node, vs[i]), node, vs, i + 1)

LdcTypes(m, node, value) ==
  IF value.t = "list" THEN LdcTypeLoop(m, node, value.l, 1)
  ELSE PrintDiag(m, "Bad property-values (not a list)", "ldc_types")

\* ------------------------------------- string properties and the fallback

StringProperties ==
  {"type", "comment", "curated_by", "description", "wd_node", "name",
   "wd_description", "template", "template_curation", "pb_roleset"}

ListProperties ==
  {"overlay_parents", "similar_nodes", "ldc_types", "arguments", "related_qnodes"}

StringProperty(m, node, property, value) ==
  GraphAdd(m, node, P(property), Literal(value))

RECURSIVE FallbackLoop(_, _, _, _, _)
FallbackLoop(m, node, property, vs, i) ==
  IF i > Len(vs) THEN m
  ELSE FallbackLoop(GraphAdd(m, node, P(property), Literal(vs[i])),
                    node, property, vs, i + 1)

\* a slip: the list branch prints nothing
Fallback_Silent(m, node, property, value) ==
  IF value.t = "list"
  THEN FallbackLoop(m, node, property, value.l, 1)
  ELSE GraphAdd(PrintDiag(m, "Unrecognized property", property),
                node, P(property), Literal(value))

Fallback(m, node, property, value) ==
  IF value.t = "list"
  THEN FallbackLoop(PrintDiag(m, "Unrecognized property with list of values", property),
                    node, property, value.l, 1)
  ELSE GraphAdd(PrintDiag(m, "Unrecognized property", property),
                node, P(property), Literal(value))

\* lines 83-174: the chain of tests on the name of the field
Dispatch(m, node, property, value) ==
  IF property \in StringProperties THEN StringProperty(m, node, property, value)
  ELSE IF property = "overlay_parents" THEN Overlay(m, node, value)
  ELSE IF property = "similar_nodes" THEN Similar(m, node, value)
  ELSE IF property = "ldc_types" THEN LdcTypes(m, node, value)
  ELSE IF property = "arguments" THEN Arguments(m, node, value)
  ELSE IF property = "related_qnodes" THEN Related(m, node, value)
  ELSE Fallback(m, node, property, value)

\* a slip: the subject is built under the prefix of the external vocabulary
SubjectNode_Wd(key) == URIRef(WD, key)

\* line 81: node = URIRef(DWD+node)
SubjectNode(key) == URIRef(ONT, key)

\* ------------------------------------------------------- the documents

MaxRecords == 2
MaxFields == 2
MaxStop == 1
MaxLdcArgs == 2

Field(property, value) == KV(property, value)

OkParent == Dict(<<KV("wd_node", Str("Q123")), KV("name", Str("Conflict"))>>)
OkParent2 == Dict(<<KV("name", Str("War")), KV("wd_node", Str("Q9"))>>)
NoWdNode == Dict(<<KV("name", Str("Conflict"))>>)
NoName == Dict(<<KV("wd_node", Str("Q123"))>>)
OkSimilar ==
  Dict(<<KV("wd_node", Str("Q9")), KV("name", Str("X")),
         KV("similarity_type", Str("exact"))>>)
NoSimilarityType == Dict(<<KV("wd_node", Str("Q9")), KV("name", Str("X"))>>)
OkConstraint == Dict(<<KV("name", Str("person")), KV("wd_node", Str("Q5"))>>)
OkArg ==
  Dict(<<KV("name", Str("A0_agent")), KV("short_name", Str("A0")),
         KV("constraints", Lst(<<OkConstraint>>))>>)
BareArg == Dict(<<KV("constraints", Lst(<<>>))>>)
NoConstraints == Dict(<<KV("name", Str("A0_agent"))>>)
BadConstraint == Dict(<<KV("constraints", Lst(<<NoWdNode>>))>>)
PlainLdcType ==
  Dict(<<KV("name", Str("Conflict.Attack")), KV("ldc_code", Str("A1")),
         KV("other_pb_rolesets", Lst(<<Str("attack.01"), Str("hit.02")>>))>>)
OddLdcType == Dict(<<KV("bogus", Str("x"))>>)

\* the elements of an ldc_arguments list
LdcArgElems ==
  { Dict(<<>>),
    Dict(<<KV("ldc_name", Str("Attacker"))>>),
    Dict(<<KV("ldc_name", Str("Attacker")), KV("dwd_arg_name", Str("A0"))>>),
    Dict(<<KV("ldc_name", Str("Attacker")), KV("ldc_contraints", Lst(<<Str("PER")>>))>>),
    Dict(<<KV("ldc_contraints", Lst(<<Str("PER")>>)), KV("ldc_name", Str("Attacker"))>>),
    Dict(<<KV("ldc_contraints", Lst(<<>>))>>),
    Dict(<<KV("ldc_name", Str("Attacker")), KV("ldc_constraints", Lst(<<Str("PER")>>))>>) }

LdcArgLists == UNION {[1..n -> LdcArgElems] : n \in 1..MaxLdcArgs}

\* every shape of field, for a record of one field
AllFields ==
  { Field("name", Str("Attack")), Field("comment", Str("c")) }
  \cup { Field("overlay_parents", v) :
           v \in { Str("x"), Lst(<<>>), Lst(<<OkParent>>), Lst(<<OkParent, OkParent2>>),
                   Lst(<<NoWdNode>>), Lst(<<NoName>>), Lst(<<Str("x")>>) } }
  \cup { Field("similar_nodes", v) :
           v \in { Str("x"), Lst(<<>>), Lst(<<OkSimilar>>), Lst(<<OkSimilar, OkSimilar>>),
                   Lst(<<NoSimilarityType>>) } }
  \cup { Field("related_qnodes", v) :
           v \in { Str("x"), Lst(<<>>), Lst(<<OkParent>>), Lst(<<NoWdNode>>) } }
  \cup { Field("arguments", v) :
           v \in { Str("x"), Lst(<<>>), Lst(<<OkArg>>), Lst(<<BareArg, OkArg>>),
                   Lst(<<NoConstraints>>), Lst(<<BadConstraint>>), Lst(<<Str("x")>>) } }
  \cup { Field("ldc_types", v) :
           v \in { Str("x"), Lst(<<>>), Lst(<<PlainLdcType>>), Lst(<<OddLdcType>>),
                   Lst(<<Str("x")>>) } }
  \cup { Field("ldc_types", Lst(<<Dict(<<KV("ldc_arguments", Lst(as))>>)>>)) :
           as \in LdcArgLists }
  \cup { Field("foo", v) :
           v \in { Str("bar"), Lst(<<>>), Lst(<<Str("a"), Str("b")>>) } }

\* the shapes that are combined in records of several fields and in
\* documents of several records
CoreFields ==
  { Field("name", Str("Attack")),
    Field("overlay_parents", Lst(<<OkParent>>)),
    Field("related_qnodes", Lst(<<NoWdNode>>)),
    Field("foo", Str("bar")) }

DistinctKeys(fs) == \A i, j \in 1..Len(fs) : fs[i].k = fs[j].k => i = j

NonDecreasing(f, n) == \A i, j \in 1..n : i <= j => f[i] <= f[j]

RECURSIVE FieldsOf(_, _, _, _)
FieldsOf(fs, owner, r, i) ==
  IF i > Len(fs) THEN <<>>
  ELSE (IF owner[i] = r THEN <<fs[i]>> ELSE <<>>) \o FieldsOf(fs, owner, r, i + 1)

\* n records that hold the fields fs between them, fs[i] in record owner[i]
Records(n, fs, owner) == [r \in 1..n |-> FieldsOf(fs, owner, r, 1)]

RecordKeys == <<"E1", "E2", "E3", "E4">>
Categories == <<"event", "entity", "relation", "temporal_relation">>

\* the categories of the records of a list, in document order
Placements(n) == {cs \in [1..n -> 1..Len(Categories)] : NonDecreasing(cs, n)}

RECURSIVE Items(_, _, _, _)
Items(rs, cs, c, i) ==
  IF i > Len(rs) THEN <<>>
  ELSE (IF cs[i] = c THEN <<KV(RecordKeys[i], Dict(rs[i]))>> ELSE <<>>)
       \o Items(rs, cs, c, i + 1)

Document(rs, cs) == [c \in 1..Len(Categories) |-> Dict(Items(rs, cs, c, 1))]

\* a document of up to MaxRecords records with up to MaxFields fields between
\* them, drawn from CoreFields
WideDocuments(n, k) ==
  UNION { UNION { { Document(Records(n, fs, owner), cs) : cs \in Placements(n) } :
                  owner \in { o \in [1..k -> 1..n] :
                                /\ NonDecreasing(o, k)
                                /\ \A r \in 1..n : DistinctKeys(FieldsOf(fs, o, r, 1)) } } :
          fs \in [1..k -> CoreFields] }

\* a document of one record of one field, of any shape
DeepDocuments(f) == { Document(<< <<f>> >>, cs) : cs \in Placements(1) }

\* --------------------------------------------------------- the program

VARIABLES
  xpo_data,       \* the loaded document: one dict per category
  N,              \* the module's N, passed as stop
  GRAPH,          \* the triples of the module's GRAPH
  drawn,          \* how many identifiers bnode has drawn
  created,        \* the synthetic nodes drawn, each with the node it was drawn for
  diags,          \* the notices printed by convert_generic
  exc,            \* the exception that ended the run, "" if none
  bound,          \* whether ldc_arg_name and ldc_arg_value are bound in this call
  ldc_arg_name,
  ldc_arg_value,
  hits,           \* how often the test of line 131 came out true
  pc,             \* "main", "for" (line 77), "edges" (line 82), "return", "raised", "done"
  cat,            \* the position of the loop of line 179
  count,
  idx,            \* the records of data the loop of line 77 has taken
  fidx,           \* the field of the record the loop of line 82 takes next
  node,
  found           \* the values n printed by line 184

vars ==
  <<xpo_data, N, GRAPH, drawn, created, diags, exc, bound, ldc_arg_name,
    ldc_arg_value, hits, pc, cat, count, idx, fidx, node, found>>

Init ==
  /\ \/ \E n \in 0..MaxRecords, k \in 0..MaxFields : xpo_data \in WideDocuments(n, k)
     \/ \E f \in AllFields : xpo_data \in DeepDocuments(f)
  /\ N \in 0..MaxStop
  /\ GRAPH = {}
  /\ drawn = 0
  /\ created = {}
  /\ diags = <<>>
  /\ exc = ""
  /\ bound = FALSE
  /\ ldc_arg_name = ""
  /\ ldc_arg_value = Str("")
  /\ hits = 0
  /\ pc = "main"
  /\ cat = 1
  /\ count = 0
  /\ idx = 0
  /\ fidx = 0
  /\ node = SubjectNode("")
  /\ found = <<>>

\* the state the handlers work on
M ==
  [G |-> GRAPH, next |-> drawn, created |-> created, diags |-> diags, exc |-> exc,
   bound |-> bound, lan |-> ldc_arg_name, lav |-> ldc_arg_value, hits |-> hits]

data == xpo_data[cat]
edges == data.l[idx].l
property == edges[fidx].k
value == KV("", edges[fidx])

\* line 183: convert_generic(data, type=xpo_type, stop=N) is entered
Call ==
  /\ pc = "main"
  /\ cat <= Len(Categories)
  /\ pc' = "for"
  /\ count' = 0
  /\ idx' = 0
  /\ fidx' = 0
  /\ bound' = FALSE
  /\ ldc_arg_name' = ""
  /\ ldc_arg_value' = Str("")
  /\ UNCHANGED <<xpo_data, N, GRAPH, drawn, created, diags, exc, hits, cat, node, found>>

\* lines 77-81: the next record is taken
NextNode ==
  /\ pc = "for"
  /\ idx < Len(data.l)
  /\ ~(N > 0 /\ count + 1 > N)
  /\ count' = count + 1
  /\ idx' = idx + 1
  /\ node' = SubjectNode(data.l[idx + 1].k)
  /\ fidx' = 1
  /\ pc' = "edges"
  /\ UNCHANGED <<xpo_data, N, GRAPH, drawn, created, diags, exc, bound,
                 ldc_arg_name, ldc_arg_value, hits, cat, found>>

\* lines 77-80: the next record is counted and the loop is left
Break ==
  /\ pc = "for"
  /\ idx < Len(data.l)
  /\ N > 0 /\ count + 1 > N
  /\ count' = count + 1
  /\ pc' = "return"
  /\ UNCHANGED <<xpo_data, N, GRAPH, drawn, created, diags, exc, bound,
                 ldc_arg_name, ldc_arg_value, hits, cat, idx, fidx, node, found>>

\* line 77: data is exhausted
Exhausted ==
  /\ pc = "for"
  /\ idx = Len(data.l)
  /\ pc' = "return"
  /\ UNCHANGED <<xpo_data, N, GRAPH, drawn, created, diags, exc, bound,
                 ldc_arg_name, ldc_arg_value, hits, cat, count, idx, fidx, node, found>>

\* the value convert_generic returns
ReturnValue(c) == c - 1

\* lines 175, 183-184: n is returned and printed, the next category follows
Return ==
  /\ pc = "return"
  /\ found' = Append(found, ReturnValue(count))
  /\ cat' = cat + 1
  /\ pc' = "main"
  /\ UNCHANGED <<xpo_data, N, GRAPH, drawn, created, diags, exc, bound,
                 ldc_arg_name, ldc_arg_value, hits, count, idx, fidx, node>>

\* lines 188-189: the graph is written out
Serialize ==
  /\ pc = "main"
  /\ cat > Len(Categories)
  /\ pc' = "done"
  /\ UNCHANGED <<xpo_data, N, GRAPH, drawn, created, diags, exc, bound,
                 ldc_arg_name, ldc_arg_value, hits, cat, count, idx, fidx, node, found>>

\* line 82: the fields of the record are exhausted
EndEdges ==
  /\ pc = "edges"
  /\ fidx > Len(edges)
  /\ pc' = "for"
  /\ UNCHANGED <<xpo_data, N, GRAPH, drawn, created, diags, exc, bound,
                 ldc_arg_name, ldc_arg_value, hits, cat, count, idx, fidx, node, found>>

AtField == pc = "edges" /\ fidx <= Len(edges)

\* the state after one field was handled with result m
Handled(m) ==
  /\ GRAPH' = m.G
  /\ drawn' = m.next
  /\ created' = m.created
  /\ diags' = m.diags
  /\ exc' = m.exc
  /\ bound' = m.bound
  /\ ldc_arg_name' = m.lan
  /\ ldc_arg_value' = m.lav
  /\ hits' = m.hits
  /\ IF m.exc # "" THEN pc' = "raised" /\ fidx' = fidx
                   ELSE pc' = "edges" /\ fidx' = fidx + 1
  /\ UNCHANGED <<xpo_data, N, cat, count, idx, node, found>>

\* lines 83-87
FieldString ==
  AtField /\ property \in StringProperties
  /\ Handled(Dispatch(M, node, property, value))

\* lines 88-97
FieldOverlay ==
  AtField /\ property = "overlay_parents" /\ Handled(Dispatch(M, node, property, value))

\* lines 98-108
FieldSimilar ==
  AtField /\ property = "similar_nodes" /\ Handled(Dispatch(M, node, property, value))

\* lines 109-137
FieldLdcTypes ==
  AtField /\ property = "ldc_types" /\ Handled(Dispatch(M, node, property, value))

\* lines 138-152
FieldArguments ==
  AtField /\ property = "arguments" /\ Handled(Dispatch(M, node, property, value))

\* lines 153-162
FieldRelated ==
  AtField /\ property = "related_qnodes" /\ Handled(Dispatch(M, node, property, value))

\* lines 163-174
FieldFallback ==
  AtField /\ property \notin StringProperties \cup ListProperties
  /\ Handled(Dispatch(M, node, property, value))

Next ==
  \/ Call
  \/ NextNode
  \/ Break
  \/ Exhausted
  \/ Return
  \/ Serialize
  \/ EndEdges
  \/ FieldString
  \/ FieldOverlay
  \/ FieldSimilar
  \/ FieldLdcTypes
  \/ FieldArguments
  \/ FieldRelated
  \/ FieldFallback

Spec == Init /\ [][Next]_vars

\* ------------------------------------------------------------ properties

Min(a, b) == IF a < b THEN a ELSE b
Terms(G) == {t[1] : t \in G} \cup {t[3] : t \in G}
Subjects(G) == {t[1] : t \in G}
BNodesOf(G) == {x \in Terms(G) : x.kind = "bnode"}
\* the fields of the current record handled so far
Handled_(j) == pc = "edges" /\ j \in 1..Len(edges) /\ j < fidx
ElementsAreDicts(v, keys) ==
  \A i \in 1..Len(v.l) : v.l[i].t = "dict" /\ \A key \in keys : HasKey(v.l[i], key)

\* the keys an element of each list-valued field is read by
ExpectedKeys(p) ==
  IF p = "similar_nodes" THEN {"wd_node", "name", "similarity_type"}
  ELSE IF p = "arguments" THEN {"constraints"}
  ELSE IF p = "ldc_types" THEN {}
  ELSE {"wd_node", "name"}

\* a value of a list-valued field that does not have the expected shape
Malformed(p, v) ==
  /\ p \in ListProperties
  /\ \/ v.t # "list"
     \/ ~ElementsAreDicts(v, ExpectedKeys(p))

\* C1: a field whose value does not have the shape its rule expects (a scalar
\* for a list-valued field, a list element that lacks an expected key or is
\* no record) never raises: one notice is printed, the field adds nothing,
\* and the loop goes on to the next field.
C1_MalformedSkipped ==
  [][ (AtField /\ Malformed(property, value))
        => /\ exc' = ""
           /\ pc' = "edges" /\ fidx' = fidx + 1
           /\ GRAPH' = GRAPH
           /\ Len(diags') = Len(diags) + 1 ]_vars

FallbackEdges(n, p, v) ==
  IF v.t = "list" THEN {<<n, P(p), Literal(v.l[i])>> : i \in 1..Len(v.l)}
  ELSE {<<n, P(p), Literal(v)>>}

\* C2: a field whose name is outside the handled vocabulary adds the edges
\* (subject, field name, literal), one for a scalar and one per element for a
\* list, prints one notice naming the field, and the loop goes on to the
\* next field without raising.
C2_FallbackEdges ==
  [][ (AtField /\ property \notin StringProperties \cup ListProperties)
        => /\ GRAPH' = GRAPH \cup FallbackEdges(node, property, value)
           /\ Len(diags') = Len(diags) + 1
           /\ diags'[Len(diags')].prop = property
           /\ exc' = ""
           /\ pc' = "edges" /\ fidx' = fidx + 1 ]_vars

C2_Witness ==
  /\ pc = "edges"
  /\ \E j \in 1..Len(edges) :
       /\ Handled_(j)
       /\ edges[j].k = "foo" /\ edges[j].t = "list" /\ Len(edges[j].l) = 2
  /\ Cardinality(GRAPH) = 2
  /\ Len(diags) = 1

OverlayTriples(n, b, e) ==
  { <<n, P("overlay"), b>>,
    <<b, P("overlay_parent"), URIRef(WD, GetItem(e, "wd_node").s)>>,
    <<b, P("overlay_parent_name"), Literal(GetItem(e, "name"))>> }

SimilarTriples(n, b, e) ==
  { <<n, P("similarNode"), b>>,
    <<b, P("wd_node"), URIRef(WD, GetItem(e, "wd_node").s)>>,
    <<b, P("name"), Literal(GetItem(e, "name"))>>,
    <<b, P("similarity_type"), URIRef(XPO, GetItem(e, "similarity_type").s)>> }

RelatedTriples(n, b, e) ==
  { <<n, P("related_qnode"), b>>,
    <<b, P("wd_node"), URIRef(WD, GetItem(e, "wd_node").s)>>,
    <<b, P("name"), Literal(GetItem(e, "name"))>> }

ConstraintTriples(a, b, c) ==
  { <<a, P("constraint"), b>>,
    <<b, P("name"), Literal(GetItem(c, "name"))>>,
    <<b, P("wd_node"), URIRef(WD, GetItem(c, "wd_node").s)>> }

DemandsArgument(n, arg, G) ==
  \E a \in BNodesOf(G) :
    /\ <<n, P("argument"), a>> \in G
    /\ \A key \in {"name", "short_name"} :
         HasKey(arg, key) => <<a, P(key), Literal(GetItem(arg, key))>> \in G
    /\ LET cs == GetItem(arg, "constraints").l
       IN \A i \in 1..Len(cs) :
            \E b \in BNodesOf(G) : ConstraintTriples(a, b, cs[i]) \subseteq G

DemandsLdcArg(t, arg, G) ==
  \E a \in BNodesOf(G) :
    /\ <<t, P("ldc_argument"), a>> \in G
    /\ \A i \in 1..Len(arg.l) :
         arg.l[i].k \in LdcArgLeafNames => <<a, P("ldc_code"), Literal(arg.l[i])>> \in G

DemandsLdcType(n, v, G) ==
  \E t \in BNodesOf(G) :
    /\ <<n, P("ldc_type"), t>> \in G
    /\ \A i \in 1..Len(v.l) :
         LET item == v.l[i]
         IN /\ item.k \in {"name", "ldc_code"} => <<t, P(item.k), Literal(item)>> \in G
            /\ item.k = "other_pb_rolesets"
                 => \A j \in 1..Len(item.l) :
                      <<t, P("other_pb_roleset"), Literal(item.l[j])>> \in G
            /\ item.k = "ldc_arguments"
                 => \A j \in 1..Len(item.l) : DemandsLdcArg(t, item.l[j], G)

\* the edges a recognized field f of the record of node n demands are in G
Demands(n, f, G) ==
  IF f.k \in StringProperties THEN <<n, P(f.k), Literal(f)>> \in G
  ELSE IF f.k \notin ListProperties \/ f.t # "list" THEN TRUE
  ELSE \A i \in 1..Len(f.l) :
         IF f.k = "overlay_parents"
         THEN \E b \in BNodesOf(G) : OverlayTriples(n, b, f.l[i]) \subseteq G
         ELSE IF f.k = "similar_nodes"
         THEN \E b \in BNodesOf(G) : SimilarTriples(n, b, f.l[i]) \subseteq G
         ELSE IF f.k = "related_qnodes"
         THEN \E b \in BNodesOf(G) : RelatedTriples(n, b, f.l[i]) \subseteq G
         ELSE IF f.k = "arguments" THEN DemandsArgument(n, f.l[i], G)
         ELSE DemandsLdcType(n, f.l[i], G)

\* the field puts at least one edge on the node of its record
EmitsEdge(f) ==
  IF f.k \in StringProperties THEN TRUE
  ELSE IF f.t = "list" THEN Len(f.l) > 0
  ELSE f.k \notin ListProperties

RecordsOf(d) ==
  UNION {{d[c].l[r] : r \in 1..Len(d[c].l)} : c \in 1..Len(Categories)}

SubjectsNamed(key, G) == {x \in Subjects(G) : x.kind = "uri" /\ x.name = key}

\* C4 as stated: after a complete run with stop = 0 every top-level key, also
\* that of a record with no fields, is exactly one subject node of the graph,
\* and carries the edges its recognized fields demand.
C4_EverySubject ==
  (pc = "done" /\ N = 0)
    => \A rec \in RecordsOf(xpo_data) :
         /\ SubjectsNamed(rec.k, GRAPH) = {URIRef(XPO, rec.k)}
         /\ \A i \in 1..Len(rec.l) : Demands(URIRef(XPO, rec.k), rec.l[i], GRAPH)

\* C4 as amended: after a complete run with stop = 0 every top-level key
\* whose record has a field that emits an edge is exactly one subject node of
\* the graph (namespace prefix + key), and every record's node carries the
\* edges its recognized fields demand; a record none of whose fields emits an
\* edge is not required to be a subject.
C4_EveryEmittingSubject ==
  (pc = "done" /\ N = 0)
    => \A rec \in RecordsOf(xpo_data) :
         /\ (\E i \in 1..Len(rec.l) : EmitsEdge(rec.l[i]))
              => SubjectsNamed(rec.k, GRAPH) = {URIRef(XPO, rec.k)}
         /\ \A i \in 1..Len(rec.l) : Demands(URIRef(XPO, rec.k), rec.l[i], GRAPH)

C4_Witness ==
  /\ pc = "done" /\ N = 0
  /\ \E rec \in RecordsOf(xpo_data) : rec.l = <<>>
  /\ \E rec \in RecordsOf(xpo_data) :
       \E i \in 1..Len(rec.l) :
         rec.l[i].k = "overlay_parents" /\ EmitsEdge(rec.l[i])

Injective(f, n) == \A i, j \in 1..n : f[i] = f[j] => i = j

\* C5: an overlay_parents list of n elements with wd_node and name adds, for
\* n synthetic nodes b that were not in the graph, exactly the triples
\* (subject, overlay, b), (b, overlay_parent, WD:<wd_node>) and
\* (b, overlay_parent_name, "<name>"); a scalar field such as name adds
\* exactly (subject, name, "<value>").
C5_OverlayTriples ==
  [][ /\ (AtField /\ property = "overlay_parents" /\ value.t = "list"
            /\ ElementsAreDicts(value, {"wd_node", "name"}))
        => LET n == Len(value.l)
               B == {t[3] : t \in {u \in GRAPH' \ GRAPH : u[2] = P("overlay")}}
           IN /\ Cardinality(B) = n
              /\ B \cap Terms(GRAPH) = {}
              /\ \A b \in B : b.kind = "bnode"
              /\ \E f \in [1..n -> B] :
                   /\ Injective(f, n)
                   /\ GRAPH' = GRAPH \cup
                        UNION {OverlayTriples(node, f[i], value.l[i]) : i \in 1..n}
      /\ (AtField /\ property \in StringProperties)
        => GRAPH' = GRAPH \cup {<<node, URIRef(XPO, property), Literal(value)>>} ]_vars

C5_Witness ==
  /\ pc = "edges"
  /\ \E j \in 1..Len(edges) :
       Handled_(j) /\ edges[j].k = "overlay_parents"
       /\ edges[j].t = "list" /\ Len(edges[j].l) = 2
  /\ Cardinality(GRAPH) = 6
  /\ exc = ""

\* C6: every element of a similar_nodes list gets one synthetic node, linked
\* from the subject, with exactly three outgoing edges: wd_node as a reference
\* under the WD prefix, name as a literal, similarity_type as a reference
\* under the graph's own namespace.
C6_SimilarTriples ==
  [][ (AtField /\ property = "similar_nodes" /\ value.t = "list"
         /\ ElementsAreDicts(value, {"wd_node", "name", "similarity_type"}))
        => LET n == Len(value.l)
               B == {t[3] : t \in {u \in GRAPH' \ GRAPH : u[2] = P("similarNode")}}
           IN /\ Cardinality(B) = n
              /\ B \cap Terms(GRAPH) = {}
              /\ \A b \in B :
                   /\ b.kind = "bnode"
                   /\ Cardinality({t \in GRAPH' : t[1] = b}) = 3
                   /\ \A t \in GRAPH' :
                        (t[1] = b /\ t[2] = P("similarity_type")) => t[3].kind = "uri"
              /\ \E f \in [1..n -> B] :
                   /\ Injective(f, n)
                   /\ GRAPH' = GRAPH \cup
                        UNION {SimilarTriples(node, f[i], value.l[i]) : i \in 1..n} ]_vars

C6_Witness ==
  /\ pc = "edges"
  /\ \E j \in 1..Len(edges) :
       Handled_(j) /\ edges[j].k = "similar_nodes"
       /\ edges[j].t = "list" /\ Len(edges[j].l) = 2
  /\ Cardinality(GRAPH) = 8
  /\ exc = ""

RECURSIVE KeysIn(_)
\* the keys of the dicts of v, at any depth
KeysIn(v) ==
  IF v.t = "str" THEN {}
  ELSE UNION {KeysIn(v.l[i]) : i \in 1..Len(v.l)}
       \cup (IF v.t = "dict" THEN {v.l[i].k : i \in 1..Len(v.l)} ELSE {})

SyntheticRoles ==
  {"OVERLAY", "SIMILAR", "LDCTYPE", "LDCARG", "ARG", "CONSTRAINT", "WDNODE"}

\* the node a synthetic node of a role hangs from
IsParentOfRole(x, role) ==
  IF role = "LDCARG" THEN x.kind = "bnode" /\ x.ns = "LDCTYPE"
  ELSE IF role = "CONSTRAINT" THEN x.kind = "bnode" /\ x.ns = "ARG"
  ELSE x \in {URIRef(XPO, rec.k) : rec \in RecordsOf(xpo_data)}

\* C8: every synthetic node in the graph is the object of exactly one triple,
\* and the subject of that triple is the node it was created for: the node
\* of the record, or the synthetic node one level up.
C8_OneIncomingEdge ==
  \A b \in BNodesOf(GRAPH) :
    /\ b.ns \in SyntheticRoles
    /\ Cardinality({c \in created : c.b = b}) = 1
    /\ LET incoming == {t \in GRAPH : t[3] = b}
       IN /\ Cardinality(incoming) = 1
          /\ \A t \in incoming :
               /\ [b |-> b, parent |-> t[1]] \in created
               /\ IsParentOfRole(t[1], b.ns)

C8_Witness ==
  /\ \E b \in BNodesOf(GRAPH) : b.ns = "CONSTRAINT"
  /\ Cardinality(BNodesOf(GRAPH)) >= 3

RECURSIVE Reversed(_)
\* v with the items of every dict in it enumerated in the opposite order
Reversed(v) ==
  IF v.t = "str" THEN v
  ELSE LET n == Len(v.l)
       IN [v EXCEPT !.l = [i \in 1..n |->
                             Reversed(v.l[IF v.t = "dict" THEN n + 1 - i ELSE i])]]

\* the triples with the identifiers of the synthetic nodes left out
Anonymous(x) == IF x.kind = "bnode" THEN [x EXCEPT !.id = 0] ELSE x
Erased(G) == {<<Anonymous(t[1]), t[2], Anonymous(t[3])>> : t \in G}

\* C9: enumerating the keys of the records inside a field in another order
\* changes neither whether the field is handled without raising nor the
\* triples it yields (compared without the names of the synthetic nodes).
C9_OrderIrrelevant ==
  AtField
    => LET a == Dispatch(M, node, property, value)
           b == Dispatch(M, node, property, Reversed(value))
       IN /\ (a.exc = "") = (b.exc = "")
          /\ a.exc = "" => Erased(a.G) = Erased(b.G)

\* C10: the value convert_generic returns for a category is the number of
\* records it processed: the size of data when stop = 0, and the smaller of
\* stop and the size of data when stop > 0.
C10_FoundCountsRecords ==
  \A i \in 1..Len(found) :
    found[i] = IF N = 0 THEN Len(xpo_data[i].l) ELSE Min(N, Len(xpo_data[i].l))

====
